---- MODULE Spec2Model ----
(***************************************************************************)
(* Identifier refresh of bevy_spritesheet_animation.                        *)
(*                                                                         *)
(* Animation::refresh_ids (src/src/animation.rs) walks the clips of an      *)
(* animation and hands every clip identifier and every frame marker to an  *)
(* IdRefresher.  MappingIdRefresher is the HashMap based implementation.    *)
(* Clip::refresh_ids, ClipId::new and Marker::new live in files that are    *)
(* not part of src/ and are modelled from spec.md (sections 3, 4.3, 9).     *)
(***************************************************************************)
EXTENDS Integers, Sequences, FiniteSets, TLC

VARIABLES
    clips,         \* Animation.clips: sequence of [id, frames]; frames[f] = the markers of frame f
    original,      \* the animation as it was built, kept by the caller as a clone
    before,        \* clips as they were when the last refresh_ids call started
    clip_ids,      \* MappingIdRefresher.clip_ids : old ClipId -> new ClipId
    markers,       \* MappingIdRefresher.markers  : old Marker -> new Marker
    seed_clip_ids, \* the clip table MappingIdRefresher::new was given
    seed_markers,  \* the marker table MappingIdRefresher::new was given
    gen,           \* the process-wide identifier source: [clip, marker] = next values
    calls,         \* the refresher calls made by the last refresh_ids, in order
    result,        \* what the last refresh_ids returned: "none", "Ok", "Err"
    policy,        \* the refresher the last refresh_ids was run with
    history,       \* every Ok call answered by the MappingIdRefresher: <<kind, old, new>>
    ops,           \* how many operations used the refresher so far
    errs,          \* how many direct calls the MappingIdRefresher answered with Err
    error,         \* the error the last refresh_ids returned inside Err, NoError otherwise
    duration,      \* Animation.duration: Option<AnimationDuration>
    repetitions,   \* Animation.repetitions: Option<AnimationRepeat>
    direction,     \* Animation.direction: Option<AnimationDirection>
    easing,        \* Animation.easing: Option<Easing>
    origin,        \* how the animation was made: "empty" (Animation::empty) or "built"
    other_clip_ids, \* id_refreshing.rs MappingIdRefresher.clip_ids, given the same calls
    other_markers,  \* id_refreshing.rs MappingIdRefresher.markers, given the same calls
    other_gen,      \* the identifier source as the id_refreshing.rs instance sees it
    agree           \* TRUE while both instances have returned the same results

vars == <<clips, original, before, clip_ids, markers, seed_clip_ids, seed_markers,
          gen, calls, result, policy, history, ops, errs, error,
          duration, repetitions, direction, easing, origin,
          other_clip_ids, other_markers, other_gen, agree>>

\* the fields of the Animation other than clips, and where it came from
animation_params == <<duration, repetitions, direction, easing, origin>>

-----------------------------------------------------------------------------
(* Bounds *)

\* the largest number of clips of an animation
MaxClips == 3
\* how many operations (refresh_ids runs, direct refresher calls) use one refresher
MaxOps == 2

-----------------------------------------------------------------------------
(* The universe of values *)

EmptyMap == [x \in {} |-> x]

\* ClipIds and Markers that exist before any refresh (all made by the id source)
ExistingClipIds == {1, 2, 3}
ExistingMarkers == {1, 2, 3}
\* the ones used by the animations that are built
OldClipIds == {1, 2}
OldMarkers == {1, 2}

\* frame lists of a clip: no frame (Clip::empty), and a clip whose first frame
\* carries two markers, whose second carries none and whose third reuses one
FrameLists == { <<>>, << <<1, 2>>, <<>>, <<2>> >> }

ClipSet == [id : OldClipIds, frames : FrameLists]

AnimationClips == UNION { [1..n -> ClipSet] : n \in 1..MaxClips }

\* Option<T>
None == <<>>
Some(x) == <<x>>

\* Clip::empty(): a clip without frames; id is the identifier it was given
Clip_empty(id) == [id |-> id, frames |-> <<>>]

\* Animation::empty()
Animation_empty(id) ==
    [clips |-> <<Clip_empty(id)>>,
     duration |-> None, repetitions |-> None, direction |-> None, easing |-> None]

\* the animation-level parameters of the animations that are built: all set
\* (the empty animation is the one with all of them unset)
BuiltParams ==
    { [duration |-> Some(<<"PerRepetition", 2000>>), repetitions |-> Some(<<"Times", 10>>),
       direction |-> Some("PingPong"), easing |-> Some("Linear")] }

\* the animations a run starts from: Animation::empty() and built ones
InitialAnimations ==
    { Animation_empty(id) @@ [origin |-> "empty"] : id \in OldClipIds }
    \cup { [clips |-> cs, duration |-> ps.duration, repetitions |-> ps.repetitions,
            direction |-> ps.direction, easing |-> ps.easing, origin |-> "built"] :
            cs \in AnimationClips, ps \in BuiltParams }

\* tables a caller passes to MappingIdRefresher::new
\* both empty; a clip id mapped onto another clip id in use; both pre-seeded
\* with an identifier no animation uses
Seeds == { <<EmptyMap, EmptyMap>>, <<1 :> 2, EmptyMap>>, <<1 :> 3, 1 :> 3>> }

FirstFreshClipId == Cardinality(ExistingClipIds) + 1
FirstFreshMarker == Cardinality(ExistingMarkers) + 1

-----------------------------------------------------------------------------
(* Identifier source *)

\* ClipId::new(): a process-wide unique value
ClipId_new(g) == [value |-> g.clip, gen |-> [g EXCEPT !.clip = @ + 1]]

\* Marker::new(): a process-wide unique value
Marker_new(g) == [value |-> g.marker, gen |-> [g EXCEPT !.marker = @ + 1]]

-----------------------------------------------------------------------------
(* Results *)

\* A Result is [ok, value]: value is the payload of Ok or the payload of Err.
\* The error of a refresher names the call it refused.
RefreshError(kind, a, b, clip_id) == [kind |-> kind, a |-> a, b |-> b, clip_id |-> clip_id]
NoError == RefreshError("none", 0, 0, 0)

-----------------------------------------------------------------------------
(* MappingIdRefresher *)

\* MappingIdRefresher::new(clip_ids, markers)
MappingIdRefresher_new(c, m) == [clip_ids |-> c, markers |-> m]

\* clip_id_mapping(), marker_mapping()
clip_id_mapping(self) == self.clip_ids
marker_mapping(self) == self.markers

\* --- variants of refresh_clip_id with a defect, used to test the properties ---
\* HashMap::insert instead of entry().or_insert_with(): every call generates
refresh_clip_id_always_insert(self, g, index, clip_id) ==
    LET n == ClipId_new(g) IN
    [ok |-> TRUE, value |-> n.value,
     self |-> [self EXCEPT !.clip_ids =
                  [k \in (DOMAIN @) \cup {clip_id} |-> IF k = clip_id THEN n.value ELSE @[k]]],
     gen |-> n.gen]

\* inserts one fixed identifier instead of a new one
refresh_clip_id_fixed_value(self, g, index, clip_id) ==
    IF clip_id \in DOMAIN self.clip_ids
    THEN [ok |-> TRUE, value |-> self.clip_ids[clip_id], self |-> self, gen |-> g]
    ELSE [ok |-> TRUE, value |-> FirstFreshClipId,
          self |-> [self EXCEPT !.clip_ids = @ @@ (clip_id :> FirstFreshClipId)],
          gen |-> ClipId_new(g).gen]

\* an unknown identifier is an error
refresh_clip_id_err_on_absent(self, g, index, clip_id) ==
    IF clip_id \in DOMAIN self.clip_ids
    THEN [ok |-> TRUE, value |-> self.clip_ids[clip_id], self |-> self, gen |-> g]
    ELSE [ok |-> FALSE, value |-> RefreshError("clip", index, 0, clip_id),
          self |-> self, gen |-> g]

\* generates for an unknown identifier but does not record the pair
refresh_clip_id_no_record(self, g, index, clip_id) ==
    IF clip_id \in DOMAIN self.clip_ids
    THEN [ok |-> TRUE, value |-> self.clip_ids[clip_id], self |-> self, gen |-> g]
    ELSE LET n == ClipId_new(g) IN
         [ok |-> TRUE, value |-> n.value, self |-> self, gen |-> n.gen]

\* records the old identifier itself instead of a new one
refresh_clip_id_keep_old(self, g, index, clip_id) ==
    IF clip_id \in DOMAIN self.clip_ids
    THEN [ok |-> TRUE, value |-> self.clip_ids[clip_id], self |-> self, gen |-> g]
    ELSE [ok |-> TRUE, value |-> clip_id,
          self |-> [self EXCEPT !.clip_ids = @ @@ (clip_id :> clip_id)],
          gen |-> ClipId_new(g).gen]

\* Ok(self.clip_ids.entry(clip_id).or_insert_with(|| ClipId::new()).clone())
refresh_clip_id(self, g, index, clip_id) ==
    IF clip_id \in DOMAIN self.clip_ids
    THEN [ok |-> TRUE, value |-> self.clip_ids[clip_id], self |-> self, gen |-> g]
    ELSE LET n == ClipId_new(g) IN
         [ok |-> TRUE, value |-> n.value,
          self |-> [self EXCEPT !.clip_ids = @ @@ (clip_id :> n.value)],
          gen |-> n.gen]

\* Ok(self.markers.entry(marker).or_insert_with(|| Marker::new()).clone())
refresh_marker(self, g, clip_id, frame, marker) ==
    IF marker \in DOMAIN self.markers
    THEN [ok |-> TRUE, value |-> self.markers[marker], self |-> self, gen |-> g]
    ELSE LET n == Marker_new(g) IN
         [ok |-> TRUE, value |-> n.value,
          self |-> [self EXCEPT !.markers = @ @@ (marker :> n.value)],
          gen |-> n.gen]

-----------------------------------------------------------------------------
(* MappingIdRefresher of id_refreshing.rs *)

\* MappingIdRefresher::new(clip_ids, markers)
IdRefreshing_new(c, m) == [clip_ids |-> c, markers |-> m]

\* Ok(self.clip_ids.entry(clip_id).or_insert_with(|| ClipId::new()).clone())
IdRefreshing_refresh_clip_id(self, g, index, clip_id) ==
    IF clip_id \in DOMAIN self.clip_ids
    THEN [ok |-> TRUE, value |-> self.clip_ids[clip_id], self |-> self, gen |-> g]
    ELSE LET n == ClipId_new(g) IN
         [ok |-> TRUE, value |-> n.value,
          self |-> [self EXCEPT !.clip_ids = @ @@ (clip_id :> n.value)],
          gen |-> n.gen]

\* Ok(self.markers.entry(marker).or_insert_with(|| Marker::new()).clone())
IdRefreshing_refresh_marker(self, g, clip_id, frame, marker) ==
    IF marker \in DOMAIN self.markers
    THEN [ok |-> TRUE, value |-> self.markers[marker], self |-> self, gen |-> g]
    ELSE LET n == Marker_new(g) IN
         [ok |-> TRUE, value |-> n.value,
          self |-> [self EXCEPT !.markers = @ @@ (marker :> n.value)],
          gen |-> n.gen]

\* the calls of a log that the MappingIdRefresher answered, given one after
\* the other to the id_refreshing.rs instance o = [self, gen, agree]
RECURSIVE Replay(_, _, _)
Replay(log, n, o) ==
    IF n > Len(log) THEN o
    ELSE IF ~log[n].ok THEN Replay(log, n + 1, o)
    ELSE LET r == IF log[n].op = "clip"
                  THEN IdRefreshing_refresh_clip_id(o.self, o.gen, log[n].index, log[n].old)
                  ELSE IdRefreshing_refresh_marker(o.self, o.gen, log[n].clip_id,
                                                   log[n].index, log[n].old)
         IN Replay(log, n + 1,
                   [self |-> r.self, gen |-> r.gen,
                    agree |-> o.agree /\ r.ok /\ r.value = log[n].new])

-----------------------------------------------------------------------------
(* A fallible IdRefresher *)

\* An IdRefresher may return Err.  The refreshers used here are the
\* MappingIdRefresher itself (kind "none") and implementations that wrap it
\* and fail on the clip at index a (kind "clip") or on marker b of the frame
\* at index a (kind "marker").
NoFailure == [kind |-> "none", a |-> 0, b |-> 0]

FailingPolicies ==
    [kind : {"clip"}, a : {0, 1}, b : {0}]
    \cup [kind : {"marker"}, a : {0, 2}, b : {2}]

IdRefresher_refresh_clip_id(p, self, g, index, clip_id) ==
    IF p.kind = "clip" /\ p.a = index
    THEN [ok |-> FALSE, value |-> RefreshError("clip", index, 0, clip_id),
          self |-> self, gen |-> g]
    ELSE refresh_clip_id(self, g, index, clip_id)

IdRefresher_refresh_marker(p, self, g, clip_id, frame, marker) ==
    IF p.kind = "marker" /\ p.a = frame /\ p.b = marker
    THEN [ok |-> FALSE, value |-> RefreshError("marker", frame, marker, clip_id),
          self |-> self, gen |-> g]
    ELSE refresh_marker(self, g, clip_id, frame, marker)

-----------------------------------------------------------------------------
(* The traversal *)

\* One entry of the call log
ClipCall(index, old, r) ==
    [op |-> "clip", index |-> index, clip_id |-> old, old |-> old,
     ok |-> r.ok, new |-> r.value]
MarkerCall(clip_id, frame, old, r) ==
    [op |-> "marker", index |-> frame, clip_id |-> clip_id, old |-> old,
     ok |-> r.ok, new |-> r.value]

\* --- variants with a defect ---
MarkerClipIdArg_remapped(old_id, new_id) == new_id
FrameIndexArg_constant(f) == 0

\* the clip id handed to refresh_marker: the one captured before the remap
MarkerClipIdArg(old_id, new_id) == old_id
\* the zero-based index of the f-th frame
FrameIndexArg(f) == f - 1

\* the marker loop of Clip::refresh_ids: frames in order, the markers of a frame in order
RECURSIVE MarkersLoop(_, _, _, _, _, _)
MarkersLoop(p, st, ci, old_id, f, j) ==
    IF f > Len(st.clips[ci].frames) THEN st
    ELSE IF j > Len(st.clips[ci].frames[f]) THEN MarkersLoop(p, st, ci, old_id, f + 1, 1)
    ELSE LET m == st.clips[ci].frames[f][j]
             cid == MarkerClipIdArg(old_id, st.clips[ci].id)
             r == IdRefresher_refresh_marker(p, st.self, st.gen, cid, FrameIndexArg(f), m)
             logged == Append(st.calls, MarkerCall(cid, FrameIndexArg(f), m, r))
         IN IF r.ok
            THEN MarkersLoop(p, [st EXCEPT !.clips[ci].frames[f][j] = r.value,
                                           !.self = r.self, !.gen = r.gen,
                                           !.calls = logged],
                             ci, old_id, f, j + 1)
            ELSE [st EXCEPT !.err = TRUE, !.error = r.value, !.calls = logged]

\* Clip::refresh_ids(index, refresher)
Clip_refresh_ids(p, st, ci, index) ==
    LET old_id == st.clips[ci].id
        r == IdRefresher_refresh_clip_id(p, st.self, st.gen, index, old_id)
        logged == Append(st.calls, ClipCall(index, old_id, r))
    IN IF r.ok
       THEN MarkersLoop(p, [st EXCEPT !.clips[ci].id = r.value,
                                      !.self = r.self, !.gen = r.gen,
                                      !.calls = logged],
                        ci, old_id, 1, 1)
       ELSE [st EXCEPT !.err = TRUE, !.error = r.value, !.calls = logged]

\* --- variants with a defect ---
EnumerateIndex_one_based(i) == i
Try_ignored(st) == FALSE

\* .enumerate(): the index of the i-th element (i counts from 1 here)
EnumerateIndex(i) == i - 1
\* the ? operator: TRUE when the function returns the error at once
Try(st) == st.err

\* for (index, clip) in self.clips.iter_mut().enumerate() { clip.refresh_ids(index, refresher)?; }
RECURSIVE ClipsLoop(_, _, _)
ClipsLoop(p, st, i) ==
    IF i > Len(st.clips) THEN st
    ELSE LET s2 == Clip_refresh_ids(p, st, i, EnumerateIndex(i))
         IN IF Try(s2) THEN s2 ELSE ClipsLoop(p, s2, i + 1)

\* --- a variant with a defect ---
\* rebuilds the clip list from the clips it visited, losing the others
Animation_refresh_ids_drop_unvisited(p, cs, self, g) ==
    LET out == ClipsLoop(p, [clips |-> cs, self |-> self, gen |-> g, calls |-> <<>>,
                             err |-> FALSE, error |-> NoError], 1)
        visited == Cardinality({ n \in 1..Len(out.calls) : out.calls[n].op = "clip" /\ out.calls[n].ok })
    IN [out EXCEPT !.clips = SubSeq(out.clips, 1, visited)]

\* Animation::refresh_ids(&mut self, refresher)
Animation_refresh_ids(p, cs, self, g) ==
    ClipsLoop(p, [clips |-> cs, self |-> self, gen |-> g, calls |-> <<>>,
                  err |-> FALSE, error |-> NoError], 1)

-----------------------------------------------------------------------------
(* Helpers over the state *)

Self == [clip_ids |-> clip_ids, markers |-> markers]
Other == [self |-> [clip_ids |-> other_clip_ids, markers |-> other_markers],
          gen |-> other_gen, agree |-> agree]

OkCalls(log) ==
    { <<log[n].op, log[n].old, log[n].new>> : n \in { k \in 1..Len(log) : log[k].ok } }

-----------------------------------------------------------------------------
(* Specification *)

Init ==
    /\ \E a \in InitialAnimations :
          /\ clips = a.clips
          /\ duration = a.duration
          /\ repetitions = a.repetitions
          /\ direction = a.direction
          /\ easing = a.easing
          /\ origin = a.origin
    /\ original = clips
    /\ before = clips
    /\ \E s \in Seeds : seed_clip_ids = s[1] /\ seed_markers = s[2]
    /\ clip_ids = MappingIdRefresher_new(seed_clip_ids, seed_markers).clip_ids
    /\ markers = MappingIdRefresher_new(seed_clip_ids, seed_markers).markers
    /\ gen = [clip |-> FirstFreshClipId, marker |-> FirstFreshMarker]
    /\ calls = <<>>
    /\ result = "none"
    /\ policy = NoFailure
    /\ history = {}
    /\ ops = 0
    /\ errs = 0
    /\ error = NoError
    /\ other_clip_ids = IdRefreshing_new(seed_clip_ids, seed_markers).clip_ids
    /\ other_markers = IdRefreshing_new(seed_clip_ids, seed_markers).markers
    /\ other_gen = gen
    /\ agree = TRUE

\* the effect of animation.refresh_ids(&mut refresher) with refresher p
DoRefresh(p) ==
    LET out == Animation_refresh_ids(p, clips, Self, gen)
        o == Replay(out.calls, 1, Other)
    IN
    /\ ops < MaxOps
    /\ ops' = ops + 1
    /\ before' = clips
    /\ clips' = out.clips
    /\ clip_ids' = out.self.clip_ids
    /\ markers' = out.self.markers
    /\ gen' = out.gen
    /\ calls' = out.calls
    /\ result' = IF out.err THEN "Err" ELSE "Ok"
    /\ error' = out.error
    /\ policy' = p
    /\ history' = history \cup OkCalls(out.calls)
    /\ other_clip_ids' = o.self.clip_ids
    /\ other_markers' = o.self.markers
    /\ other_gen' = o.gen
    /\ agree' = o.agree
    /\ UNCHANGED <<original, seed_clip_ids, seed_markers, errs>>
    /\ UNCHANGED animation_params

\* animation.refresh_ids(&mut mapping_id_refresher)
RefreshIds == DoRefresh(NoFailure)

\* animation.refresh_ids(&mut r) with a refresher r that can fail
RefreshIdsFallible == \E p \in FailingPolicies : DoRefresh(p)

\* a direct call of MappingIdRefresher::refresh_clip_id
CallRefreshClipId ==
    \E index \in {0, 1}, old \in OldClipIds \cup {clips[1].id} :
        LET r == refresh_clip_id(Self, gen, index, old)
            o == IdRefreshing_refresh_clip_id(Other.self, other_gen, index, old)
        IN
        /\ ops < MaxOps
        /\ ops' = ops + 1
        /\ clip_ids' = r.self.clip_ids
        /\ markers' = r.self.markers
        /\ gen' = r.gen
        /\ history' = history \cup (IF r.ok THEN {<<"clip", old, r.value>>} ELSE {})
        /\ errs' = IF r.ok THEN errs ELSE errs + 1
        /\ other_clip_ids' = o.self.clip_ids
        /\ other_markers' = o.self.markers
        /\ other_gen' = o.gen
        /\ agree' = (agree /\ o.ok = r.ok /\ (r.ok => o.value = r.value))
        /\ UNCHANGED <<clips, original, before, seed_clip_ids, seed_markers,
                       calls, result, policy, error>>
        /\ UNCHANGED animation_params

\* a direct call of MappingIdRefresher::refresh_marker
CallRefreshMarker ==
    \E cid \in OldClipIds, frame \in {0, 1}, old \in OldMarkers :
        LET r == refresh_marker(Self, gen, cid, frame, old)
            o == IdRefreshing_refresh_marker(Other.self, other_gen, cid, frame, old)
        IN
        /\ ops < MaxOps
        /\ ops' = ops + 1
        /\ clip_ids' = r.self.clip_ids
        /\ markers' = r.self.markers
        /\ gen' = r.gen
        /\ history' = history \cup (IF r.ok THEN {<<"marker", old, r.value>>} ELSE {})
        /\ errs' = IF r.ok THEN errs ELSE errs + 1
        /\ other_clip_ids' = o.self.clip_ids
        /\ other_markers' = o.self.markers
        /\ other_gen' = o.gen
        /\ agree' = (agree /\ o.ok = r.ok /\ (r.ok => o.value = r.value))
        /\ UNCHANGED <<clips, original, before, seed_clip_ids, seed_markers,
                       calls, result, policy, error>>
        /\ UNCHANGED animation_params

\* the caller goes back to its clone of the animation as built
Reimport ==
    /\ clips # original
    /\ clips' = original
    /\ before' = original
    /\ calls' = <<>>
    /\ result' = "none"
    /\ policy' = NoFailure
    /\ error' = NoError
    /\ UNCHANGED <<original, clip_ids, markers, seed_clip_ids, seed_markers, gen,
                   history, ops, errs>>
    /\ UNCHANGED animation_params
    /\ UNCHANGED <<other_clip_ids, other_markers, other_gen, agree>>

Next ==
    \/ RefreshIds
    \/ RefreshIdsFallible
    \/ CallRefreshClipId
    \/ CallRefreshMarker
    \/ Reimport

Spec == Init /\ [][Next]_vars

-----------------------------------------------------------------------------
(* Vocabulary of the properties *)

\* the marker occurrences of an animation: <<clip, frame, place in the frame>>
Positions(cs) ==
    UNION { UNION { { <<i, f, j>> : j \in 1..Len(cs[i].frames[f]) }
                    : f \in 1..Len(cs[i].frames) }
            : i \in 1..Len(cs) }

MarkerAt(cs, p) == cs[p[1]].frames[p[2]][p[3]]

ClipIdsDistinct(cs) == \A i, j \in 1..Len(cs) : i # j => cs[i].id # cs[j].id

IsClipCall(c) == c.op = "clip"
ClipCalls == SelectSeq(calls, IsClipCall)

\* the place in the log of the refresh_clip_id call that opened the clip
\* whose markers are being processed at place n
OwnerCall(n) == CHOOSE m \in 1..n : /\ calls[m].op = "clip"
                                    /\ \A x \in (m + 1)..n : calls[x].op = "marker"

\* the frame index every marker of a frame list is due, in traversal order
RECURSIVE FlatFrames(_, _)
FlatFrames(frames, f) ==
    IF f > Len(frames) THEN <<>>
    ELSE [j \in 1..Len(frames[f]) |-> f - 1] \o FlatFrames(frames, f + 1)

Ran == result # "none"
RanMapping == Ran /\ policy = NoFailure
FreshRefresher == DOMAIN seed_clip_ids = {} /\ DOMAIN seed_markers = {}
Injective(t) == \A a, b \in DOMAIN t : a # b => t[a] # t[b]

-----------------------------------------------------------------------------
(* Properties *)

\* C1 - Consistency: over the whole life of one MappingIdRefresher, all calls
\* with the same old ClipId return the same new ClipId and all calls with the
\* same old Marker return the same new Marker, whatever index, owning clip id
\* or frame index was passed.
C1_Consistency ==
    /\ \A h1, h2 \in history : (h1[1] = h2[1] /\ h1[2] = h2[2]) => h1[3] = h2[3]
    /\ \A n1, n2 \in 1..Len(calls) :
          (calls[n1].ok /\ calls[n2].ok /\ calls[n1].op = calls[n2].op
             /\ calls[n1].old = calls[n2].old) => calls[n1].new = calls[n2].new

\* one old marker met under two owning clip ids and two frame indices, one old
\* clip id met at two indices, after two operations on the refresher
C1_Witness ==
    /\ ops >= 2
    /\ \E n1, n2 \in 1..Len(calls) :
          /\ calls[n1].op = "marker" /\ calls[n2].op = "marker"
          /\ calls[n1].ok /\ calls[n2].ok
          /\ calls[n1].old = calls[n2].old
          /\ calls[n1].clip_id # calls[n2].clip_id
          /\ calls[n1].index # calls[n2].index
    /\ \E n1, n2 \in 1..Len(calls) :
          /\ calls[n1].op = "clip" /\ calls[n2].op = "clip"
          /\ calls[n1].ok /\ calls[n2].ok
          /\ calls[n1].old = calls[n2].old
          /\ calls[n1].index # calls[n2].index

\* C2 - Uniqueness: with a MappingIdRefresher that was created with empty
\* tables, a successful refresh_ids of an animation with pairwise distinct
\* clip ids leaves them pairwise distinct, markers that differed before differ
\* after, and both tables are injective.
C2_Uniqueness ==
    FreshRefresher =>
        /\ Injective(clip_ids)
        /\ Injective(markers)
        /\ (RanMapping /\ result = "Ok") =>
              /\ ClipIdsDistinct(before) => ClipIdsDistinct(clips)
              /\ \A p, q \in Positions(before) :
                    MarkerAt(before, p) # MarkerAt(before, q)
                        => MarkerAt(clips, p) # MarkerAt(clips, q)

C2_Witness ==
    /\ FreshRefresher /\ RanMapping /\ result = "Ok"
    /\ Len(before) = 2
    /\ ClipIdsDistinct(before) /\ ClipIdsDistinct(clips)
    /\ clips[1].id # before[1].id
    /\ \E p, q \in Positions(before) :
          /\ p[1] # q[1]
          /\ MarkerAt(before, p) # MarkerAt(before, q)
          /\ MarkerAt(clips, p) # MarkerAt(clips, q)

\* C3 - Fail-fast: when refresh_clip_id fails at clip index k, refresh_ids
\* returns the failure, the clips before k hold the identifier the refresher
\* returned for them, and the clips after k are untouched.
C3_FailFast ==
    (Ran /\ policy.kind = "clip" /\ policy.a < Len(before)) =>
        LET k == policy.a + 1 IN
        /\ result = "Err"
        /\ Len(clips) = Len(before)
        /\ Len(ClipCalls) = k
        /\ ~calls[Len(calls)].ok /\ calls[Len(calls)].op = "clip"
        /\ \A i \in 1..(k - 1) : ClipCalls[i].ok /\ clips[i].id = ClipCalls[i].new
        /\ \A i \in (k + 1)..Len(clips) : clips[i] = before[i]

\* the failure on the 2nd of 3 clips: clip 0 has a new id, clip 2 has frames
C3_Witness ==
    /\ Ran /\ policy.kind = "clip" /\ policy.a = 1
    /\ Len(before) = 3
    /\ result = "Err"
    /\ clips[1].id # before[1].id
    /\ Len(before[3].frames) > 0
    /\ clips[3] = before[3]

\* C4 - Pre-seeding wins: an entry old -> kept given to MappingIdRefresher::new
\* stays in the table unchanged, every call with old returns kept, a
\* successful refresh_ids rewrites every occurrence of old to kept, and the
\* identifier source is used only for the keys added to the tables.
C4_PreSeedWins ==
    /\ \A k \in DOMAIN seed_clip_ids :
          k \in DOMAIN clip_id_mapping(Self) /\ clip_id_mapping(Self)[k] = seed_clip_ids[k]
    /\ \A k \in DOMAIN seed_markers :
          k \in DOMAIN marker_mapping(Self) /\ marker_mapping(Self)[k] = seed_markers[k]
    /\ \A h \in history :
          /\ (h[1] = "clip" /\ h[2] \in DOMAIN seed_clip_ids) => h[3] = seed_clip_ids[h[2]]
          /\ (h[1] = "marker" /\ h[2] \in DOMAIN seed_markers) => h[3] = seed_markers[h[2]]
    /\ (Ran /\ result = "Ok") =>
          /\ \A i \in 1..Len(before) :
                before[i].id \in DOMAIN seed_clip_ids
                    => clips[i].id = seed_clip_ids[before[i].id]
          /\ \A p \in Positions(before) :
                MarkerAt(before, p) \in DOMAIN seed_markers
                    => MarkerAt(clips, p) = seed_markers[MarkerAt(before, p)]
    /\ gen.clip - FirstFreshClipId
          = Cardinality(DOMAIN clip_ids) - Cardinality(DOMAIN seed_clip_ids)
    /\ gen.marker - FirstFreshMarker
          = Cardinality(DOMAIN markers) - Cardinality(DOMAIN seed_markers)

\* a refresh met a pre-seeded marker and a pre-seeded clip id, next to ids
\* that were generated
C4_Witness ==
    /\ RanMapping /\ result = "Ok"
    /\ \E p \in Positions(before) :
          /\ MarkerAt(before, p) \in DOMAIN seed_markers
          /\ MarkerAt(clips, p) = seed_markers[MarkerAt(before, p)]
    /\ \E i \in 1..Len(before) :
          /\ before[i].id \in DOMAIN seed_clip_ids
          /\ clips[i].id = seed_clip_ids[before[i].id]
    /\ gen.clip > FirstFreshClipId
    /\ gen.marker > FirstFreshMarker

\* C5 - Infallibility: MappingIdRefresher answers every call with Ok, and a
\* refresh_ids run with it returns Ok after one call per clip and one call
\* per marker.
C5_Infallible ==
    /\ errs = 0
    /\ RanMapping =>
          /\ result = "Ok"
          /\ \A n \in 1..Len(calls) : calls[n].ok
          /\ Len(calls) = Len(before) + Cardinality(Positions(before))
          /\ Len(ClipCalls) = Len(before)

\* three clips with markers, on pre-seeded tables, after a direct call
C5_Witness ==
    /\ RanMapping /\ result = "Ok"
    /\ Len(before) = 3
    /\ Cardinality(Positions(before)) >= 6
    /\ DOMAIN seed_clip_ids # {}
    /\ ops = 2 /\ Cardinality(history) > Cardinality(OkCalls(calls))

\* C6 - Clip index order: a successful refresh_ids of N clips makes N
\* refresh_clip_id calls, the i-th with index i and the id clip i had before.
C6_ClipIndexOrder ==
    (Ran /\ result = "Ok") =>
        /\ Len(ClipCalls) = Len(before)
        /\ \A i \in 1..Len(ClipCalls) :
              /\ ClipCalls[i].index = i - 1
              /\ ClipCalls[i].old = before[i].id

C6_Witness ==
    /\ Ran /\ result = "Ok"
    /\ Len(before) = 3
    /\ ClipCalls[3].index = 2
    /\ before[1].id # before[3].id
    /\ Len(calls) > Len(ClipCalls)

\* C7 - Pre-remap clip id: every refresh_marker call carries the id its clip
\* had before refresh_ids started, the one passed as old to refresh_clip_id.
C7_PreRemapClipId ==
    \A n \in 1..Len(calls) :
        calls[n].op = "marker" =>
            LET m == OwnerCall(n) IN
            /\ calls[n].clip_id = calls[m].old
            /\ calls[n].clip_id = before[calls[m].index + 1].id

\* a marker call whose clip already holds another id
C7_Witness ==
    \E n \in 1..Len(calls) :
        /\ calls[n].op = "marker"
        /\ calls[n].clip_id # clips[calls[OwnerCall(n)].index + 1].id
        /\ calls[OwnerCall(n)].index > 0

\* C8 as claimed - the frame indices of successive refresh_marker calls of a
\* clip are strictly increasing.
C8_StrictlyIncreasing ==
    \A n \in 1..(Len(calls) - 1) :
        (calls[n].op = "marker" /\ calls[n + 1].op = "marker")
            => calls[n].index < calls[n + 1].index

\* C8 - Frame index order, amended: every marker is passed the index of its
\* own frame, so within a clip the frame indices of successive refresh_marker
\* calls never decrease, repeat for the markers of one frame and increase
\* from one frame to a later one.
C8_FrameIndexOrder ==
    /\ \A n \in 1..(Len(calls) - 1) :
          (calls[n].op = "marker" /\ calls[n + 1].op = "marker")
              => calls[n].index <= calls[n + 1].index
    /\ \A n \in 1..Len(calls) :
          calls[n].op = "marker" =>
              LET m == OwnerCall(n)
                  due == FlatFrames(before[calls[m].index + 1].frames, 1)
              IN n - m <= Len(due) /\ calls[n].index = due[n - m]

\* a frame with two markers, a frame with none, then a frame with a marker
C8_Witness ==
    \E n \in 1..(Len(calls) - 2) :
        /\ calls[n].op = "marker" /\ calls[n + 1].op = "marker" /\ calls[n + 2].op = "marker"
        /\ calls[n].index = 0 /\ calls[n + 1].index = 0 /\ calls[n + 2].index = 2

\* C9 - Grow-only tables: no step removes or changes an entry of the clip-id
\* table or of the marker table.
C9_GrowOnly ==
    [][ /\ \A k \in DOMAIN clip_ids : k \in DOMAIN clip_ids' /\ clip_ids'[k] = clip_ids[k]
        /\ \A k \in DOMAIN markers : k \in DOMAIN markers' /\ markers'[k] = markers[k]
      ]_vars

\* a pre-seeded table that grew, queried again by a second operation
C9_Witness ==
    /\ ops = 2
    /\ DOMAIN seed_clip_ids # {}
    /\ Cardinality(DOMAIN clip_ids) > Cardinality(DOMAIN seed_clip_ids) + 1
    /\ Cardinality(DOMAIN markers) > Cardinality(DOMAIN seed_markers)
    /\ \E h \in history : h[1] = "clip" /\ h[2] \in DOMAIN seed_clip_ids

\* C10 - Audit trail: after a successful refresh_ids with a MappingIdRefresher
\* the new id of every clip is clip_id_mapping()[its old id] and every new
\* marker is marker_mapping()[the old marker].
C10_AuditTrail ==
    (RanMapping /\ result = "Ok") =>
        /\ Len(clips) = Len(before)
        /\ \A i \in 1..Len(before) :
              /\ before[i].id \in DOMAIN clip_id_mapping(Self)
              /\ clips[i].id = clip_id_mapping(Self)[before[i].id]
        /\ Positions(clips) = Positions(before)
        /\ \A p \in Positions(before) :
              /\ MarkerAt(before, p) \in DOMAIN marker_mapping(Self)
              /\ MarkerAt(clips, p) = marker_mapping(Self)[MarkerAt(before, p)]

C10_Witness ==
    /\ RanMapping /\ result = "Ok"
    /\ Len(before) >= 2
    /\ Cardinality(Positions(before)) >= 3
    /\ \E i \in 1..Len(before) : before[i].id \notin DOMAIN seed_clip_ids
    /\ \E i \in 1..Len(before) : clips[i].id # before[i].id

-----------------------------------------------------------------------------
(* Further vocabulary *)

ClipIdsOf(cs) == { cs[i].id : i \in 1..Len(cs) }
MarkersOf(cs) == { MarkerAt(cs, p) : p \in Positions(cs) }
Range(t) == { t[k] : k \in DOMAIN t }

\* C11 as claimed - after a successful refresh_ids with a MappingIdRefresher
\* no clip id and no marker of the animation equals one it held before.
C11_ExclusivelyNew ==
    (RanMapping /\ result = "Ok") =>
        /\ ClipIdsOf(clips) \cap ClipIdsOf(before) = {}
        /\ MarkersOf(clips) \cap MarkersOf(before) = {}

\* C11 - Exclusively new identifiers, amended: a successful refresh_ids with a
\* MappingIdRefresher none of whose table values at the start of the call is
\* an identifier of the animation (an empty, unused refresher is one) leaves
\* no clip id and no marker the animation held before.
C11_NewUnlessMapped ==
    [][ ( /\ RefreshIds
          /\ result' = "Ok"
          /\ Range(clip_ids) \cap ClipIdsOf(clips) = {}
          /\ Range(markers) \cap MarkersOf(clips) = {} )
        => ( /\ ClipIdsOf(clips') \cap ClipIdsOf(clips) = {}
             /\ MarkersOf(clips') \cap MarkersOf(clips) = {} )
      ]_vars

\* a refresh of three clips with markers on tables pre-seeded with unused ids
C11_Witness ==
    /\ RanMapping /\ result = "Ok"
    /\ Len(before) = 3
    /\ DOMAIN seed_clip_ids # {} /\ DOMAIN seed_markers # {}
    /\ Range(seed_clip_ids) \cap ClipIdsOf(before) = {}
    /\ MarkersOf(before) # {}
    /\ ClipIdsOf(clips) \cap ClipIdsOf(before) = {}
    /\ MarkersOf(clips) \cap MarkersOf(before) = {}

\* a second refresh_ids with the same MappingIdRefresher on the animation its
\* first, successful refresh_ids produced
SecondRun == RefreshIds /\ RanMapping /\ result = "Ok" /\ result' = "Ok"

\* C12 as claimed - on the second run the clip ids and markers of the
\* animation that are in the table when they are looked up are left unchanged.
C12_RerunNoOp ==
    [][ SecondRun =>
          /\ \A i \in 1..Len(clips) :
                clips[i].id \in DOMAIN clip_ids => clips'[i].id = clips[i].id
          /\ \A q \in Positions(clips) :
                MarkerAt(clips, q) \in DOMAIN markers
                    => MarkerAt(clips', q) = MarkerAt(clips, q)
      ]_vars

\* C12 - Re-run, amended: the second run looks every current identifier up as
\* a key.  One that is a key is rewritten to the table's value for it, so it
\* stays only if the table maps it to itself; one that is no key, as every
\* identifier the first run generated, is replaced by a newly generated one.
C12_RerunRemaps ==
    [][ SecondRun =>
          /\ \A i \in 1..Len(clips) :
                IF clips[i].id \in DOMAIN clip_ids
                THEN clips'[i].id = clip_ids[clips[i].id]
                ELSE clips'[i].id >= gen.clip /\ clips'[i].id # clips[i].id
          /\ \A q \in Positions(clips) :
                IF MarkerAt(clips, q) \in DOMAIN markers
                THEN MarkerAt(clips', q) = markers[MarkerAt(clips, q)]
                ELSE /\ MarkerAt(clips', q) >= gen.marker
                     /\ MarkerAt(clips', q) # MarkerAt(clips, q)
      ]_vars

\* after the second run: the first run had left a clip id that is a key of
\* the table, another clip got an identifier generated by the second run,
\* and so did a marker
C12_Witness ==
    /\ ops = 2 /\ RanMapping /\ result = "Ok"
    /\ before # original
    /\ ClipIdsOf(before) \subseteq Range(clip_ids)
    /\ \E i \in 1..Len(before) :
          /\ before[i].id \in Range(seed_clip_ids)
          /\ before[i].id \in ClipIdsOf(original)
          /\ clips[i].id = clip_ids[before[i].id]
    /\ \E j \in 1..Len(before) :
          before[j].id >= FirstFreshClipId /\ clips[j].id > before[j].id
    /\ \E q \in Positions(before) : MarkerAt(clips, q) > MarkerAt(before, q)

\* C13 - No refresher call after a failure: a call that returns Err is the
\* last call of its refresh_ids, refresh_ids returns Err exactly when a call
\* did, and the error it returns is the error of that call.
C13_NoCallAfterFailure ==
    /\ \A n \in 1..Len(calls) : ~calls[n].ok => n = Len(calls)
    /\ Ran => (result = "Err" <=> (Len(calls) > 0 /\ ~calls[Len(calls)].ok))
    /\ result = "Err" => error = calls[Len(calls)].new
    /\ result # "Err" => error = NoError

\* refresh_marker failed in the second of three clips, after other markers
C13_Witness ==
    /\ result = "Err"
    /\ Len(before) = 3
    /\ error.kind = "marker" /\ error.a = 2
    /\ Len(ClipCalls) = 2
    /\ Len(calls) >= 5
    /\ Len(before[3].frames) > 0

\* the marker places <<frame, place in the frame>> of a frame list, in
\* traversal order
RECURSIVE FlatPositions(_, _)
FlatPositions(frames, f) ==
    IF f > Len(frames) THEN <<>>
    ELSE [j \in 1..Len(frames[f]) |-> <<f, j>>] \o FlatPositions(frames, f + 1)

\* C14 - Partial state on a failure: when refresh_marker fails in clip k,
\* clip k holds the id refresh_clip_id returned, the markers visited before
\* the failing one hold their new values, the failing marker, the later
\* markers of clip k and all later clips keep their values; when
\* refresh_clip_id fails for clip k, clip k is unchanged.
C14_PartialState ==
    /\ \A n \in 1..Len(calls) : (~calls[n].ok /\ calls[n].op = "marker") =>
          LET m == OwnerCall(n)
              k == calls[m].index + 1
              pos == FlatPositions(before[k].frames, 1)
              done == n - m - 1
          IN /\ result = "Err"
             /\ clips[k].id = calls[m].new
             /\ Len(clips[k].frames) = Len(before[k].frames)
             /\ done < Len(pos)
             /\ \A t \in 1..Len(pos) :
                   clips[k].frames[pos[t][1]][pos[t][2]]
                      = IF t <= done THEN calls[m + t].new
                        ELSE before[k].frames[pos[t][1]][pos[t][2]]
             /\ \A i \in 1..(k - 1) : clips[i].id = ClipCalls[i].new
             /\ \A i \in (k + 1)..Len(before) : clips[i] = before[i]
    /\ \A n \in 1..Len(calls) : (~calls[n].ok /\ calls[n].op = "clip") =>
          LET k == calls[n].index + 1
          IN /\ result = "Err"
             /\ clips[k] = before[k]
             /\ \A i \in (k + 1)..Len(before) : clips[i] = before[i]

\* refresh_marker failed on the last marker of the first of two clips: the
\* clip id and the two earlier markers are new, the last marker and the
\* second clip are as before
C14_Witness ==
    /\ result = "Err" /\ error.kind = "marker" /\ error.a = 2
    /\ Len(ClipCalls) = 1 /\ Len(calls) = 4
    /\ Len(before) >= 2
    /\ clips[1].id # before[1].id
    /\ clips[1].frames[1][1] # before[1].frames[1][1]
    /\ clips[1].frames[1][2] # before[1].frames[1][2]
    /\ clips[1].frames[3][1] = before[1].frames[3][1]
    /\ Len(before[2].frames) > 0 /\ clips[2] = before[2]

\* C15 - One generation per distinct unseen id: in every step the identifier
\* source is used once per key added to a table, and a refresh_ids with a
\* MappingIdRefresher adds to each table exactly the distinct old identifiers
\* of the animation that were not keys when the call started.
C15_OneGenerationPerUnseen ==
    [][ /\ gen'.clip - gen.clip = Cardinality(DOMAIN clip_ids') - Cardinality(DOMAIN clip_ids)
        /\ gen'.marker - gen.marker = Cardinality(DOMAIN markers') - Cardinality(DOMAIN markers)
        /\ RefreshIds =>
              /\ DOMAIN clip_ids' = DOMAIN clip_ids \cup ClipIdsOf(clips)
              /\ DOMAIN markers' = DOMAIN markers \cup MarkersOf(clips)
              /\ Cardinality(DOMAIN clip_ids')
                    = Cardinality(DOMAIN clip_ids)
                      + Cardinality(ClipIdsOf(clips) \ DOMAIN clip_ids)
              /\ Cardinality(DOMAIN markers')
                    = Cardinality(DOMAIN markers)
                      + Cardinality(MarkersOf(clips) \ DOMAIN markers)
              /\ gen'.clip - gen.clip = Cardinality(ClipIdsOf(clips) \ DOMAIN clip_ids)
              /\ gen'.marker - gen.marker = Cardinality(MarkersOf(clips) \ DOMAIN markers)
      ]_vars

\* the first operation on pre-seeded tables refreshed three clips with two
\* distinct ids, one of them a key, whose markers are shared between clips:
\* one clip id and one marker were generated
C15_Witness ==
    /\ ops = 1 /\ RanMapping /\ result = "Ok"
    /\ Len(before) = 3
    /\ ClipIdsOf(before) = OldClipIds
    /\ DOMAIN seed_clip_ids # {} /\ DOMAIN seed_markers # {}
    /\ \E p, q \in Positions(before) : p[1] # q[1] /\ MarkerAt(before, p) = MarkerAt(before, q)
    /\ gen.clip = FirstFreshClipId + 1
    /\ gen.marker = FirstFreshMarker + 1
    /\ Cardinality(DOMAIN clip_ids) = 2 /\ Cardinality(DOMAIN markers) = 2

Unset(x) == x = None

\* C16 - The clip sequence is never empty: an animation made by
\* Animation::empty() has one clip without frames and its four parameters
\* unset, and no refresh_ids, successful or not, changes the number of clips.
C16_ClipsNeverEmpty ==
    /\ Len(clips) >= 1
    /\ Len(clips) = Len(original)
    /\ Len(before) = Len(original)
    /\ origin = "empty" =>
          /\ Len(original) = 1
          /\ Len(original[1].frames) = 0
          /\ Len(clips[1].frames) = 0
          /\ Unset(duration) /\ Unset(repetitions) /\ Unset(direction) /\ Unset(easing)

\* a refresh_ids on the empty animation that succeeded, then one that failed
C16_Witness ==
    /\ origin = "empty"
    /\ ops = 2
    /\ result = "Err"
    /\ clips[1].id # original[1].id
    /\ Len(clips) = 1

\* a refresh_ids run with any of the refreshers
AnyRefresh == RefreshIds \/ RefreshIdsFallible

C18_SameBehaviour ==
    /\ agree
    /\ other_clip_ids = clip_id_mapping(Self)
    /\ other_markers = marker_mapping(Self)
    /\ other_gen = gen

\* both instances, pre-seeded, answered clip and marker calls of two
\* operations and generated identifiers of both kinds
C18_Witness ==
    /\ ops = 2
    /\ DOMAIN seed_clip_ids # {} /\ DOMAIN seed_markers # {}
    /\ \E h \in history : h[1] = "clip" /\ h[2] \in DOMAIN seed_clip_ids
    /\ \E h \in history : h[1] = "marker" /\ h[2] \notin DOMAIN seed_markers
    /\ Cardinality(DOMAIN other_clip_ids) >= 3
    /\ Cardinality(DOMAIN other_markers) >= 3
    /\ other_gen.clip > FirstFreshClipId /\ other_gen.marker > FirstFreshMarker

====
